---- MODULE Spec2Model ----
(***************************************************************************)
(* A model of the gamification and content-generation flows of finlit4:    *)
(* the profile XP/level/streak bookkeeping done by the client pages, the   *)
(* database triggers that run next to it, the achievement unlock protocol, *)
(* the savings-goal updates and the generate-lesson edge function.         *)
(*                                                                         *)
(* Every handler is an async function: each await of a store or function   *)
(* round trip is one step, so the handlers of two browser sessions of the  *)
(* same user interleave between round trips.                               *)
(***************************************************************************)
EXTENDS Integers, Sequences, FiniteSets, TLC

VARIABLES
    profile,          \* the user's row of public.profiles
    now,              \* the wall clock, in quarter days since an epoch (UTC)
    tz,               \* the browser's offset from UTC, in quarter days
    dayStreak,        \* history: the stored streak when the day began
    pc,               \* pc[s]: where session s stands in the handler it runs
    loc,              \* loc[s]: the local variables of that handler
    started,          \* handler invocations started so far: how many, and
                      \* did one start while another was still running
    toasts,           \* notifications surfaced so far, by kind
    progress,         \* lessons with a user_progress row of the user
    seenProgress,     \* seenProgress[s]: the progress rows page s has loaded
    quizAttempts,     \* the user's quiz_attempts rows: how many, any perfect
    expenses,         \* number of rows of the user in public.expenses
    expenseInserts,   \* history: expense rows ever inserted for the user
    achievements,     \* number of catalog rows named 'First Expense'
    userAchievements, \* user_achievements rows of the user, per achievement
    lesson,           \* the lessons row at hand: does it exist, its content
    seenContent,      \* seenContent[s]: the page of s and its copy of the lesson
    genCalls,         \* number of calls made to the generative provider
    course,           \* the courses row at hand and the lessons stored for it
    budgets,          \* the user's budgets rows: allocated amount by category
    seenBudget,       \* seenBudget[s]: allocations and spending on page s
    expenseRows,      \* the user's expenses, newest first: month, category,
                      \* amount
    stats,            \* stats[s]: the figures the analytics page s shows
    goal,             \* the savings_goals row at hand
    seenGoal,         \* seenGoal[s]: the goal row as page s has loaded it
    shown,            \* the achievements each page lists as unlocked, and
                      \* history: those some page has listed as unlocked
    quizPage,         \* the state of the Quiz page, and history: the answers
                      \* it has taken
    faulted           \* history: has any store or function call failed

clockVars == <<now, tz, dayStreak>>
sessionVars == <<pc, loc, started, toasts>>
learnVars == <<progress, seenProgress, quizAttempts>>
expenseVars == <<expenses, expenseInserts, achievements, userAchievements>>
lessonVars == <<lesson, seenContent, genCalls, course>>
budgetVars == <<budgets, seenBudget, expenseRows, stats>>
goalVars == <<goal, seenGoal>>
uiVars == <<shown, quizPage>>

vars == <<profile, clockVars, sessionVars, learnVars, expenseVars,
          lessonVars, budgetVars, goalVars, uiVars, faulted>>

\* ------------------------------------------------------------------ bounds
MaxOps == 3         \* handler invocations per behaviour
MaxNow == 13        \* last clock value
MaxQuestions == 2   \* questions in a quiz
MaxRows == 2        \* expense rows of the user
MaxStored == 4      \* rows of quiz_questions

\* Two browser sessions (tabs) of the same user.
Sessions == {"tabA", "tabB"}

\* ------------------------------------------------------- program constants
QuartersPerDay == 4
NoDate == -1        \* last_login_date IS NULL
TzOffsets == {-1, 0, 1}
InitialXp == {0, 980, 990}

dailyXP == 20

\* The lessons of the course at hand and the xp_reward column of each.
LessonIds == {"L1", "L2"}
XpReward == [l \in LessonIds |-> IF l = "L1" THEN 30 ELSE 0]

\* What the user types into the goal forms.
Targets == {20, 500}
Amounts == {-10, 0, 10, 500}

\* The pages that complete a lesson.
LessonPages == {"Learn", "CourseDetail"}

\* Two of the CATEGORIES of the budget page, the amounts typed into its
\* inputs, and the months and amounts of the user's expenses.
Categories == {"food", "bills"}
BudgetAmounts == {-50, 100}
Months == {1, 2, 3}
ExpenseAmounts == {0, 100, 150}

\* The seeded catalog rows check_achievements refers to, and the row named
\* 'First Expense' the expenses page looks up by name.
AchievementIds == {"ExpenseTracker", "QuizMaster", "PerfectScore",
                   "FirstExpense"}

\* -------------------------------------------------------------- profiles
\* The row a fresh INSERT INTO profiles (id) gets from the column defaults.
DefaultProfile ==
    [exists |-> TRUE, xp |-> 0, level |-> 1, coins |-> 0,
     streak_days |-> 0, last_login_date |-> NoDate]

NoLoc ==
    [xp |-> 0, coins |-> 0, streak |-> 0, last |-> NoDate, found |-> FALSE,
     amt |-> 0, ok |-> FALSE, lessonId |-> "none", score |-> 0,
     page |-> "none", ach |-> "none", n |-> 0, text |-> <<"null", 0>>,
     empty |-> FALSE, id |-> 0, cat |-> "none", before |-> 0,
     reply |-> "none", outcome |-> "none", impl |-> "none", start |-> 0]

\* No lesson row, no goal row, no unlock rows; a page with no lesson loaded.
NullContent == <<"null", 0>>
NoLesson == [exists |-> FALSE, content |-> NullContent]
NoSeen == [page |-> "none", content |-> NullContent]
NoGoal ==
    [exists |-> FALSE, id |-> 0, current |-> 0, target |-> 0,
     completed |-> FALSE]
NoUserAchievements == [a \in AchievementIds |-> 0]

\* No budgets row, a budget page and an analytics page that loaded nothing,
\* no courses row.
NoBudget == [exists |-> FALSE, allocated |-> 0]
NoSeenBudget ==
    [budgets |-> [c \in Categories |-> 0],
     spending |-> [c \in Categories |-> 0]]
NoStats == [loaded |-> FALSE, trend |-> [kind |-> "num", num |-> 0, den |-> 1]]

\* The order_index values of generated lessons and, for each, the number
\* of lessons rows of the course that carry it.
OrderIndexes == {1, 2}
NoGenerated == [i \in OrderIndexes |-> 0]
NoCourse ==
    [exists |-> FALSE, lessons_count |-> 0, generated |-> NoGenerated,
     content |-> <<"null", 0>>]

\* ------------------------------------------------------------ dates
\* today.toISOString().split('T')[0]: the calendar date in UTC.
TodayStr(t) == t \div QuartersPerDay

\* new Date('YYYY-MM-DD'): a date-only string parses as midnight UTC.
ParseDate(d) == d * QuartersPerDay

\* date.setHours(0,0,0,0): midnight of the date's day in the browser's zone.
SetHoursZero(t) ==
    ((t + tz) \div QuartersPerDay) * QuartersPerDay - tz

\* Math.floor((today.setHours(0,0,0,0) - lastLogin.setHours(0,0,0,0)) / day)
DiffDays(t, last) ==
    (SetHoursZero(t) - SetHoursZero(ParseDate(last))) \div QuartersPerDay

\* Mutant: any gap of a day or more extends the streak.
NewStreak_noReset(streak, last, t) ==
    IF last = NoDate THEN 1
    ELSE IF DiffDays(t, last) >= 1 THEN streak + 1
    ELSE streak

\* Mutant: a repeated login on the same day counts as a streak day.
NewStreak_sameDay(streak, last, t) ==
    IF last = NoDate THEN 1
    ELSE IF DiffDays(t, last) > 1 THEN 1
    ELSE streak + 1

\* The streak rule of handleDailyLoginReward.
NewStreak(streak, last, t) ==
    IF last = NoDate THEN 1
    ELSE IF DiffDays(t, last) = 1 THEN streak + 1
    ELSE IF DiffDays(t, last) > 1 THEN 1
    ELSE streak

\* ------------------------------------------------------ handler plumbing
Goto(s, label) == pc' = [pc EXCEPT ![s] = label]

\* The user starts a handler on page s; the session runs one at a time.
Begin(s) ==
    /\ pc[s] = "idle"
    /\ started.n < MaxOps
    /\ started' = [n |-> started.n + 1,
                   overlap |-> started.overlap
                                \/ \E t \in Sessions \ {s} : pc[t] # "idle",
                   by |-> s]

Toast(kind) == toasts' = [toasts EXCEPT ![kind] = @ + 1]

\* A round trip either succeeds or comes back with an error.
Fault(ok) == faulted' = (faulted \/ ~ok)

\* ---------------------------------------------------------- daily login
\* AuthProvider: getSession().then(...) and onAuthStateChange(...) both call
\* handleDailyLoginReward; the first round trip reads the profile.
LoginRead(s) ==
    /\ Begin(s)
    /\ \E ok \in BOOLEAN :
        /\ Fault(ok)
        /\ IF ~ok
           THEN \* if (error) return
                /\ Goto(s, "idle")
                /\ loc' = [loc EXCEPT ![s] = NoLoc]
                /\ UNCHANGED profile
           ELSE IF ~profile.exists
           THEN \* insert({ id: userId }); return
                /\ profile' = DefaultProfile
                /\ Goto(s, "idle")
                /\ loc' = [loc EXCEPT ![s] = NoLoc]
           ELSE /\ loc' = [loc EXCEPT ![s] =
                       [NoLoc EXCEPT !.xp = profile.xp,
                                     !.streak = profile.streak_days,
                                     !.last = profile.last_login_date,
                                     !.found = TRUE]]
                /\ Goto(s, "login_write")
                /\ UNCHANGED profile
    /\ UNCHANGED <<clockVars, uiVars, toasts, learnVars, expenseVars, lessonVars,
                   budgetVars, goalVars>>

\* The second round trip writes last_login_date, streak_days and xp.
LoginWrite(s) ==
    /\ pc[s] = "login_write"
    /\ LET newStreak == NewStreak(loc[s].streak, loc[s].last, now) IN
       \E ok \in BOOLEAN :
        /\ Fault(ok)
        /\ /\ IF ok /\ profile.exists
              THEN profile' = [profile EXCEPT
                       !.last_login_date = TodayStr(now),
                       !.streak_days = newStreak,
                       !.xp = loc[s].xp + dailyXP]
              ELSE UNCHANGED profile
           /\ loc' = [loc EXCEPT ![s].ok = ok /\ profile.exists]
           /\ IF newStreak > 0 /\ newStreak % 7 = 0
              THEN Toast("streak")
              ELSE UNCHANGED toasts
    /\ Goto(s, "idle")
    /\ UNCHANGED <<clockVars, uiVars, started, learnVars, expenseVars,
                   lessonVars,
                   budgetVars, goalVars>>

\* ------------------------------------------------------- xp arithmetic
\* Mutant: the level is the number of whole thousands, without the + 1.
LevelOf_zeroBased(newXP) == newXP \div 1000

\* Math.floor(newXP / 1000) + 1
LevelOf(newXP) == newXP \div 1000 + 1

\* Mutant: the award is added to the xp the row holds at the write.
NewXP_increment(stored, read, reward) == stored + reward

\* const newXP = (profile.xp || 0) + reward: the award is added to the xp
\* the handler read, and the sum is what the update carries.
NewXP(stored, read, reward) == read + reward

\* Math.floor(xp_reward / 10)
CoinsFor(reward) == reward \div 10

\* ----------------------------------------------------- lesson completion
\* loadCourseDetails / loadCourse: the page reloads the user's progress
\* rows, when it is opened and at the end of a lesson completion, where the
\* handler's locals go.
LoadProgress(s) ==
    /\ \/ pc[s] = "load_progress"
       \/ pc[s] = "idle" /\ seenProgress[s] # progress
    /\ \E ok \in BOOLEAN :
        /\ Fault(ok)
        /\ seenProgress' = [seenProgress EXCEPT ![s] =
                                IF ok THEN progress ELSE @]
    /\ loc' = [loc EXCEPT ![s] = NoLoc]
    /\ Goto(s, "idle")
    /\ UNCHANGED <<profile, clockVars, uiVars, started, toasts, progress,
                   quizAttempts, expenseVars,
                   lessonVars, budgetVars, goalVars>>

\* Mutant: the upsert names (user_id, lesson_id) as its conflict target.
UpsertProgress_onConflict(rows, l) ==
    [error |-> FALSE, rows |-> rows \cup {l}]

\* upsert({ user_id, course_id, lesson_id, completed: true, ... }) with no
\* onConflict: the conflict target is the primary key id, which the payload
\* leaves to its default, so the statement is an insert and
\* UNIQUE(user_id, lesson_id) refuses it when the lesson has a row.
UpsertProgress(rows, l) ==
    IF l \in rows THEN [error |-> TRUE, rows |-> rows]
    ELSE [error |-> FALSE, rows |-> rows \cup {l}]

\* Mutant: the error of the upsert is not looked at.
AfterUpsert_ignored(error) == "lesson_read"

\* if (progressError) throw progressError: the catch ends the handler.
AfterUpsert(error) == IF error THEN "idle" ELSE "lesson_read"

\* completeLesson (Learn) and markLessonComplete (CourseDetail): the button
\* shows while the page holds no completed progress row for the lesson; the
\* first round trip upserts the progress row.  No onConflict is given, so
\* the conflict target is the primary key and a second row for the same
\* (user, lesson) is rejected by UNIQUE(user_id, lesson_id).
CompleteLessonUpsert(s) ==
    /\ Begin(s)
    /\ \E l \in LessonIds \ seenProgress[s], page \in LessonPages,
          ok \in BOOLEAN :
        /\ Fault(ok)
        /\ IF ok /\ ~UpsertProgress(progress, l).error
           THEN /\ progress' = UpsertProgress(progress, l).rows
                /\ loc' = [loc EXCEPT ![s] =
                       [NoLoc EXCEPT !.lessonId = l, !.amt = XpReward[l],
                                     !.page = page]]
                /\ Goto(s, AfterUpsert(FALSE))
           ELSE /\ loc' = [loc EXCEPT ![s] =
                       [NoLoc EXCEPT !.lessonId = l, !.page = page]]
                /\ Goto(s, AfterUpsert(TRUE))
                /\ UNCHANGED progress
    /\ UNCHANGED <<profile, clockVars, uiVars, toasts, seenProgress,
                   quizAttempts,
                   expenseVars, lessonVars, budgetVars, goalVars>>

\* The second round trip reads xp, level and coins; without a row the
\* award is skipped.
CompleteLessonRead(s) ==
    /\ pc[s] = "lesson_read"
    /\ \E ok \in BOOLEAN :
        /\ Fault(ok)
        /\ IF ok /\ profile.exists
           THEN /\ loc' = [loc EXCEPT ![s].xp = profile.xp,
                                      ![s].coins = profile.coins,
                                      ![s].found = TRUE]
                /\ Goto(s, "lesson_write")
           ELSE /\ Goto(s, "load_progress")
                /\ UNCHANGED loc
    /\ UNCHANGED <<profile, clockVars, uiVars, started, toasts, learnVars,
                   expenseVars, lessonVars, budgetVars, goalVars>>

\* The third round trip writes xp and level (and coins on the Learn page).
CompleteLessonWrite(s) ==
    /\ pc[s] = "lesson_write"
    /\ LET newXP == NewXP(profile.xp, loc[s].xp, loc[s].amt)
           newLevel == LevelOf(newXP)
           newCoins == loc[s].coins + CoinsFor(loc[s].amt)
       IN \E ok \in BOOLEAN :
            /\ Fault(ok)
            /\ /\ IF ok /\ profile.exists
                  THEN profile' = [profile EXCEPT
                           !.xp = newXP,
                           !.level = newLevel,
                           !.coins = IF loc[s].page = "Learn" THEN newCoins
                                     ELSE @]
                  ELSE UNCHANGED profile
               /\ loc' = [loc EXCEPT ![s].ok = ok /\ profile.exists]
    /\ Goto(s, "load_progress")
    /\ UNCHANGED <<clockVars, uiVars, started, toasts, learnVars, expenseVars,
                   lessonVars, budgetVars, goalVars>>

\* ------------------------------------------------------------------ quiz
\* saveQuizAttempt: the first round trip inserts the quiz_attempts row.
SaveQuizInsert(s) ==
    /\ Begin(s)
    /\ \E score \in 0..MaxQuestions, total \in 1..MaxQuestions,
          ok \in BOOLEAN :
        /\ Fault(ok)
        /\ /\ score <= total
           /\ IF ok
              THEN /\ quizAttempts' =
                       [n |-> quizAttempts.n + 1,
                        perfect |-> quizAttempts.perfect \/ score = total]
                   /\ loc' = [loc EXCEPT ![s] =
                           [NoLoc EXCEPT !.score = score, !.amt = score * 100]]
                   /\ Goto(s, "quiz_read")
              ELSE \* if (error) throw error
                   /\ loc' = [loc EXCEPT ![s] = NoLoc]
                   /\ Goto(s, "idle")
                   /\ UNCHANGED quizAttempts
    /\ UNCHANGED <<profile, clockVars, uiVars, toasts, progress, seenProgress,
                   expenseVars, lessonVars, budgetVars, goalVars>>

SaveQuizRead(s) ==
    /\ pc[s] = "quiz_read"
    /\ \E ok \in BOOLEAN :
        /\ Fault(ok)
        /\ IF ok /\ profile.exists
           THEN /\ loc' = [loc EXCEPT ![s].xp = profile.xp, ![s].found = TRUE]
                /\ Goto(s, "quiz_write")
           ELSE /\ Goto(s, "idle")
                /\ UNCHANGED loc
    /\ UNCHANGED <<profile, clockVars, uiVars, started, toasts, learnVars,
                   expenseVars, lessonVars, budgetVars, goalVars>>

SaveQuizWrite(s) ==
    /\ pc[s] = "quiz_write"
    /\ LET newXP == NewXP(profile.xp, loc[s].xp, loc[s].amt)
           newLevel == LevelOf(newXP)
       IN \E ok \in BOOLEAN :
            /\ Fault(ok)
            /\ /\ IF ok /\ profile.exists
                  THEN profile' = [profile EXCEPT !.xp = newXP,
                                                  !.level = newLevel]
                  ELSE UNCHANGED profile
               /\ loc' = [loc EXCEPT ![s].ok = ok /\ profile.exists]
    /\ Goto(s, "idle")
    /\ UNCHANGED <<clockVars, uiVars, started, toasts, learnVars, expenseVars,
                   lessonVars, budgetVars, goalVars>>

\* ------------------------------------------------------------- quiz page
\* .limit(10)
QuestionLimit == 10

Min(a, b) == IF a < b THEN a ELSE b

\* The Quiz component as useState leaves it, no tab showing it yet; answered
\* and times are history: the answers handleAnswer has taken, in all and on
\* the question at hand.
NoQuiz ==
    [tab |-> "none", loading |-> TRUE, questions |-> 0,
     currentQuestion |-> 0, selectedAnswer |-> "null",
     showExplanation |-> FALSE, score |-> 0, lives |-> 3,
     quizComplete |-> FALSE, answered |-> 0, times |-> 0]

\* The page renders a question, with its option buttons, once the questions
\* are loaded, there is one, and the quiz is not complete.
QuestionOnScreen(s) ==
    /\ quizPage.tab = s
    /\ ~quizPage.loading
    /\ quizPage.questions > 0
    /\ ~quizPage.quizComplete

\* loadQuestions: the newest questions, ten at most; a failed read leaves
\* the list empty.
LoadQuestions(s) ==
    /\ pc[s] = "idle"
    /\ quizPage.tab = "none"
    /\ \E stored \in 0..MaxStored, ok \in BOOLEAN :
        /\ Fault(ok)
        /\ quizPage' = [NoQuiz EXCEPT
                      !.tab = s, !.loading = FALSE,
                      !.questions = IF ok THEN Min(stored, QuestionLimit)
                                          ELSE 0]
    /\ UNCHANGED <<profile, clockVars, shown, sessionVars, learnVars,
                   expenseVars, lessonVars, budgetVars, goalVars>>

\* handleAnswer: a click on an option; if (showExplanation) return.
HandleAnswer(s) ==
    /\ QuestionOnScreen(s)
    /\ ~quizPage.showExplanation
    /\ \E isCorrect \in BOOLEAN :
        quizPage' = [quizPage EXCEPT
                   !.selectedAnswer = IF isCorrect THEN "right" ELSE "wrong",
                   !.showExplanation = TRUE,
                   !.score = IF isCorrect THEN @ + 1 ELSE @,
                   !.lives = IF isCorrect THEN @ ELSE @ - 1,
                   !.answered = @ + 1,
                   !.times = @ + 1]
    /\ UNCHANGED <<profile, clockVars, shown, sessionVars, learnVars,
                   expenseVars, lessonVars, budgetVars, goalVars, faulted>>

\* handleNext: the button shows with the explanation.  It moves to the next
\* question, or, on the last one, completes the quiz and starts
\* saveQuizAttempt, whose first round trip inserts the quiz_attempts row.
HandleNext(s) ==
    /\ QuestionOnScreen(s)
    /\ quizPage.showExplanation
    /\ IF quizPage.currentQuestion < quizPage.questions - 1
       THEN /\ quizPage' = [quizPage EXCEPT !.currentQuestion = @ + 1,
                                    !.selectedAnswer = "null",
                                    !.showExplanation = FALSE,
                                    !.times = 0]
            /\ UNCHANGED <<sessionVars, quizAttempts, faulted>>
       ELSE /\ quizPage' = [quizPage EXCEPT !.quizComplete = TRUE]
            /\ Begin(s)
            /\ UNCHANGED toasts
            /\ \E ok \in BOOLEAN :
                /\ Fault(ok)
                /\ IF ok
                   THEN /\ quizAttempts' =
                            [n |-> quizAttempts.n + 1,
                             perfect |-> quizAttempts.perfect
                                          \/ quizPage.score = quizPage.questions]
                        /\ loc' = [loc EXCEPT ![s] =
                                [NoLoc EXCEPT !.score = quizPage.score,
                                              !.amt = quizPage.score * 100]]
                        /\ Goto(s, "quiz_read")
                   ELSE /\ loc' = [loc EXCEPT ![s] = NoLoc]
                        /\ Goto(s, "idle")
                        /\ UNCHANGED quizAttempts
    /\ UNCHANGED <<profile, clockVars, shown, progress, seenProgress,
                   expenseVars, lessonVars, budgetVars, goalVars>>

\* Take Another Quiz: window.location.reload() mounts the component anew.
TakeAnotherQuiz(s) ==
    /\ pc[s] = "idle"
    /\ quizPage.tab = s
    /\ quizPage.quizComplete
    /\ quizPage' = NoQuiz
    /\ UNCHANGED <<profile, clockVars, shown, sessionVars, learnVars,
                   expenseVars, lessonVars, budgetVars, goalVars, faulted>>

\* -------------------------------------------------------------- expenses
\* Row-level security: the tables on which the migration gives the signed-in
\* user an INSERT (or ALL) policy.  public.achievements has a SELECT policy
\* only, so an insert made with the user's credentials is refused.
InsertPolicies == {"profiles", "expenses", "budgets", "savings_goals",
                   "user_progress", "quiz_attempts", "user_achievements"}

\* Mutant: every table takes inserts made with the user's credentials.
MayInsert_all(table) == TRUE

MayInsert(table) == table \in InsertPolicies

\* add_xp_to_user(p_user_id, p_xp_amount): one UPDATE of xp, coins and level.
AddXpToUser(p, amount) ==
    IF p.exists
    THEN [p EXCEPT !.xp = p.xp + amount,
                   !.coins = p.coins + (amount \div 10),
                   !.level = ((p.xp + amount) \div 1000) + 1]
    ELSE p

\* Mutant: the unique constraint on (user_id, achievement_id) is missing.
InsertUserAchievement_noUnique(ua, a) == [ua EXCEPT ![a] = @ + 1]

\* INSERT INTO user_achievements under UNIQUE(user_id, achievement_id): a
\* second row for the pair is rejected and the table stays as it is.
InsertUserAchievement(ua, a) ==
    IF ua[a] = 0 THEN [ua EXCEPT ![a] = 1] ELSE ua

\* check_achievements(p_user_id): the three IF ... NOT EXISTS ... INSERTs.
CheckAchievements(ua, expenseCount, quiz) ==
    LET ua1 == IF expenseCount >= 10 /\ ua["ExpenseTracker"] = 0
               THEN InsertUserAchievement(ua, "ExpenseTracker") ELSE ua
        ua2 == IF quiz.n >= 5 /\ ua1["QuizMaster"] = 0
               THEN InsertUserAchievement(ua1, "QuizMaster") ELSE ua1
    IN IF quiz.perfect /\ ua2["PerfectScore"] = 0
       THEN InsertUserAchievement(ua2, "PerfectScore") ELSE ua2

\* handleSubmit: the first round trip inserts the expense row; the trigger
\* expense_xp_trigger runs add_xp_to_user(user, 10) in the same statement.
SubmitInsert(s) ==
    /\ Begin(s)
    /\ \E ok \in BOOLEAN :
        /\ Fault(ok)
        /\ IF ok /\ profile.exists
           THEN /\ expenses' = expenses + 1
                /\ expenseInserts' = expenseInserts + 1
                /\ profile' = AddXpToUser(profile, 10)
                /\ userAchievements' =
                       CheckAchievements(userAchievements, expenses + 1,
                                         quizAttempts)
                /\ loc' = [loc EXCEPT ![s] =
                       [NoLoc EXCEPT !.page = "Expenses",
                                     !.before = profile.xp]]
                /\ Goto(s, "submit_read")
           ELSE \* if (error) throw error
                /\ loc' = [loc EXCEPT ![s] = NoLoc]
                /\ Goto(s, "idle")
                /\ UNCHANGED <<profile, expenses, expenseInserts,
                               userAchievements>>
    /\ UNCHANGED <<clockVars, uiVars, toasts, learnVars, achievements,
                   lessonVars,
                   budgetVars, goalVars>>

\* const currentXP = profile?.xp || 0: a failed read leaves profile
\* undefined and the award is computed from 0.
SubmitRead(s) ==
    /\ pc[s] = "submit_read"
    /\ \E ok \in BOOLEAN :
        /\ Fault(ok)
        /\ loc' = [loc EXCEPT ![s].xp = IF ok /\ profile.exists
                                         THEN profile.xp ELSE 0,
                              ![s].found = ok /\ profile.exists]
    /\ Goto(s, "submit_write")
    /\ UNCHANGED <<profile, clockVars, uiVars, started, toasts, learnVars,
                   expenseVars, lessonVars, budgetVars, goalVars>>

\* update({ xp: currentXP + 10 }): xp alone is written.
SubmitWrite(s) ==
    /\ pc[s] = "submit_write"
    /\ \E ok \in BOOLEAN :
        /\ Fault(ok)
        /\ /\ IF ok /\ profile.exists
              THEN profile' = [profile EXCEPT !.xp = loc[s].xp + 10]
              ELSE UNCHANGED profile
           /\ loc' = [loc EXCEPT ![s].ok = ok /\ profile.exists]
    /\ Goto(s, "submit_head")
    /\ UNCHANGED <<clockVars, uiVars, started, toasts, learnVars, expenseVars,
                   lessonVars, budgetVars, goalVars>>

\* select('id', { count: 'exact', head: true }): a HEAD request carries no
\* rows, countData is null and totalForUser is undefined.
SubmitHead(s) ==
    /\ pc[s] = "submit_head"
    /\ Goto(s, "submit_count")
    /\ UNCHANGED <<profile, clockVars, uiVars, loc, started, toasts, learnVars,
                   expenseVars, lessonVars, budgetVars, goalVars, faulted>>

\* The fallback counts the user's rows: (allExpenses?.length || 0) === 1.
SubmitCount(s) ==
    /\ pc[s] = "submit_count"
    /\ \E ok \in BOOLEAN :
        /\ Fault(ok)
        /\ LET n == IF ok THEN expenses ELSE 0 IN
           /\ loc' = [loc EXCEPT ![s].n = n]
           /\ IF n = 1
              THEN Goto(s, "ensure_select")
              ELSE Goto(s, "idle")
    /\ UNCHANGED <<profile, clockVars, uiVars, started, toasts, learnVars,
                   expenseVars, lessonVars, budgetVars, goalVars>>

\* ensureAchievement: look the name up in the catalog ...
EnsureSelect(s) ==
    /\ pc[s] = "ensure_select"
    /\ \E ok \in BOOLEAN :
        /\ Fault(ok)
        /\ IF ok /\ achievements > 0
           THEN Goto(s, "unlock_lookup")
           ELSE Goto(s, "ensure_insert")
    /\ UNCHANGED <<profile, clockVars, uiVars, loc, started, toasts, learnVars,
                   expenseVars, lessonVars, budgetVars, goalVars>>

\* ... and insert a row when none came back.  The error of a refused
\* insert is not looked at.
EnsureInsert(s) ==
    /\ pc[s] = "ensure_insert"
    /\ \E ok \in BOOLEAN :
        /\ Fault(ok)
        /\ achievements' = IF ok /\ MayInsert("achievements")
                           THEN achievements + 1 ELSE achievements
    /\ Goto(s, "unlock_lookup")
    /\ UNCHANGED <<profile, clockVars, uiVars, loc, started, toasts, learnVars,
                   expenses, expenseInserts, userAchievements, lessonVars,
                   budgetVars, goalVars>>

\* unlockAchievement: .eq('name', name).single() yields a row only when
\* exactly one matches; if (!ach?.id) return.
UnlockLookup(s) ==
    /\ pc[s] = "unlock_lookup"
    /\ \E ok \in BOOLEAN :
        /\ Fault(ok)
        /\ IF ok /\ achievements = 1
           THEN /\ loc' = [loc EXCEPT ![s].ach = "FirstExpense"]
                /\ Goto(s, "unlock_check")
           ELSE /\ Goto(s, "idle")
                /\ UNCHANGED loc
    /\ UNCHANGED <<profile, clockVars, uiVars, started, toasts, learnVars,
                   expenseVars, lessonVars, budgetVars, goalVars>>

\* if (existing && existing.length > 0) return
UnlockCheck(s) ==
    /\ pc[s] = "unlock_check"
    /\ \E ok \in BOOLEAN :
        /\ Fault(ok)
        /\ IF ok /\ userAchievements[loc[s].ach] > 0
           THEN Goto(s, "idle")
           ELSE Goto(s, "unlock_insert")
    /\ UNCHANGED <<profile, clockVars, uiVars, loc, started, toasts, learnVars,
                   expenseVars, lessonVars, budgetVars, goalVars>>

\* Mutant: the notification is shown only for a row that was inserted.
UnlockToast_checked(t, inserted) ==
    IF inserted THEN [t EXCEPT !.unlock = @ + 1] ELSE t

\* toast.success('Achievement unlocked: ' + name) follows the insert
\* whatever the insert returned.
UnlockToast(t, inserted) == [t EXCEPT !.unlock = @ + 1]

\* The insert, whose error is not looked at, and the notification.
UnlockInsert(s) ==
    /\ pc[s] = "unlock_insert"
    /\ \E ok \in BOOLEAN :
        /\ Fault(ok)
        /\ userAchievements' =
               IF ok /\ MayInsert("user_achievements")
               THEN InsertUserAchievement(userAchievements, loc[s].ach)
               ELSE userAchievements
    /\ toasts' = UnlockToast(toasts, userAchievements' # userAchievements)
    /\ Goto(s, "idle")
    /\ UNCHANGED <<profile, clockVars, uiVars, loc, started, learnVars, expenses,
                   expenseInserts, achievements,
                   lessonVars, budgetVars, goalVars>>

\* handleDelete: a hard delete of one of the user's rows.
ExpenseDelete(s) ==
    /\ Begin(s)
    /\ expenses > 0
    /\ \E ok \in BOOLEAN :
        /\ Fault(ok)
        /\ expenses' = IF ok THEN expenses - 1 ELSE expenses
    /\ loc' = [loc EXCEPT ![s] = NoLoc]
    /\ UNCHANGED <<profile, clockVars, uiVars, pc, toasts, learnVars,
                   expenseInserts, achievements, userAchievements,
                   lessonVars, budgetVars, goalVars>>

\* ---------------------------------------------------------- savings goals
\* loadGoals: the page reloads the user's goal rows, when it is opened and
\* at the end of createGoal, addToGoal and deleteGoal; a failed load leaves
\* the page's rows as they are.
LoadGoals(s) ==
    /\ \/ pc[s] = "load_goals"
       \/ pc[s] = "idle" /\ seenGoal[s] # goal
    /\ \E ok \in BOOLEAN :
        /\ Fault(ok)
        /\ seenGoal' = [seenGoal EXCEPT ![s] = IF ok THEN goal ELSE @]
    /\ loc' = [loc EXCEPT ![s] = NoLoc]
    /\ Goto(s, "idle")
    /\ UNCHANGED <<profile, clockVars, uiVars, started, toasts, learnVars,
                   expenseVars, lessonVars, budgetVars, goal>>

\* createGoal: the first round trip inserts the row with current_amount 0.
CreateGoalInsert(s) ==
    /\ Begin(s)
    /\ ~goal.exists
    /\ \E t \in Targets, ok \in BOOLEAN :
        /\ Fault(ok)
        /\ IF ok
           THEN /\ goal' = [exists |-> TRUE, id |-> started.n + 1,
                            current |-> 0, target |-> t,
                            completed |-> FALSE]
                /\ loc' = [loc EXCEPT ![s] =
                        [NoLoc EXCEPT !.page = "createGoal", !.amt = 50]]
                /\ Goto(s, "create_read")
           ELSE \* if (error) throw error
                /\ loc' = [loc EXCEPT ![s] = NoLoc]
                /\ Goto(s, "idle")
                /\ UNCHANGED goal
    /\ UNCHANGED <<profile, clockVars, uiVars, toasts, learnVars, expenseVars,
                   lessonVars, budgetVars, seenGoal>>

\* The profile read shared by createGoal and by a completing addToGoal:
\* if (profile) { ... }.
GoalAwardRead(s) ==
    /\ pc[s] \in {"create_read", "goal_read"}
    /\ \E ok \in BOOLEAN :
        /\ Fault(ok)
        /\ IF ok /\ profile.exists
           THEN /\ loc' = [loc EXCEPT ![s].xp = profile.xp,
                                      ![s].coins = profile.coins,
                                      ![s].found = TRUE]
                /\ Goto(s, "goal_write")
           ELSE /\ Goto(s, "load_goals")
                /\ UNCHANGED loc
    /\ UNCHANGED <<profile, clockVars, uiVars, started, toasts, learnVars,
                   expenseVars, lessonVars, budgetVars, goalVars>>

\* update({ xp: xp + 50, coins: coins + 10 }) after a creation and
\* update({ xp: xp + 200, coins: coins + 50 }) after a completion.
GoalAwardWrite(s) ==
    /\ pc[s] = "goal_write"
    /\ \E ok \in BOOLEAN :
        /\ Fault(ok)
        /\ IF ok /\ profile.exists
           THEN profile' = [profile EXCEPT
                    !.xp = loc[s].xp + loc[s].amt,
                    !.coins = loc[s].coins
                                + (IF loc[s].amt = 50 THEN 10 ELSE 50)]
           ELSE UNCHANGED profile
        /\ loc' = [loc EXCEPT ![s].ok = ok /\ profile.exists]
    /\ Goto(s, "load_goals")
    /\ UNCHANGED <<clockVars, uiVars, started, toasts, learnVars, expenseVars,
                   lessonVars, budgetVars, goalVars>>

\* const isCompleted = newAmount >= Number(goal.target_amount)
IsCompleted(newAmount, target) == newAmount >= target

\* addToGoal: the input shows on a goal the page holds as not completed.
\* The new amount is computed from the page's copy of the goal
\* (goals.find) and written with the flag in one update.
AddToGoal(s) ==
    /\ Begin(s)
    /\ seenGoal[s].exists /\ ~seenGoal[s].completed
    /\ \E amount \in Amounts, ok \in BOOLEAN :
        /\ Fault(ok \/ amount <= 0)
        /\ IF amount <= 0
           THEN \* toast.error('Please enter a valid amount'); return
                /\ loc' = [loc EXCEPT ![s] =
                        [NoLoc EXCEPT !.page = "addToGoal", !.n = amount]]
                /\ Goto(s, "idle")
                /\ UNCHANGED goal
           ELSE LET newAmount == seenGoal[s].current + amount
                    isCompleted == IsCompleted(newAmount, seenGoal[s].target)
                    hit == goal.exists /\ goal.id = seenGoal[s].id
                IN /\ goal' = IF ok /\ hit
                               THEN [goal EXCEPT !.current = newAmount,
                                                 !.completed = isCompleted]
                               ELSE goal
                   /\ loc' = [loc EXCEPT ![s] =
                        [NoLoc EXCEPT !.page = "addToGoal", !.n = amount,
                                      !.amt = 200, !.ok = ok /\ hit,
                                      !.before = profile.xp,
                                      !.start = goal.current]]
                   /\ IF ~ok THEN Goto(s, "idle")
                      ELSE IF isCompleted THEN Goto(s, "goal_read")
                      ELSE Goto(s, "load_goals")
    /\ UNCHANGED <<profile, clockVars, uiVars, toasts, learnVars, expenseVars,
                   lessonVars, budgetVars, seenGoal>>

\* deleteGoal: a hard delete of the row the page shows.
DeleteGoal(s) ==
    /\ Begin(s)
    /\ seenGoal[s].exists
    /\ \E ok \in BOOLEAN :
        /\ Fault(ok)
        /\ goal' = IF ok /\ goal.exists /\ goal.id = seenGoal[s].id
                   THEN NoGoal ELSE goal
        /\ IF ok THEN Goto(s, "load_goals") ELSE Goto(s, "idle")
    /\ loc' = [loc EXCEPT ![s] = NoLoc]
    /\ UNCHANGED <<profile, clockVars, uiVars, toasts, learnVars, expenseVars,
                   lessonVars, budgetVars, seenGoal>>

\* --------------------------------------------------------- lesson content
\* !(content && content.trim() !== ''): null and blank content are empty.
IsEmpty(c) == c[1] \in {"null", "blank"}

\* The fallback text stored when the provider's reply carries no text.
WarnText == <<"warn", 0>>

\* What the provider call of generate-lesson can come back with.
FetchOutcomes == {"nokey", "http", "empty", "badjson", "notext", "text"}

\* The other statements that leave the lesson state alone.
LessonFrame == UNCHANGED <<profile, clockVars, uiVars, toasts, learnVars,
                           expenseVars, goalVars, course, budgetVars>>

\* Learn.loadCourseDetails: the page replaces its lessons by the stored rows.
LoadCourseDetails(s) ==
    /\ Begin(s)
    /\ \E ok \in BOOLEAN :
        /\ Fault(ok)
        /\ seenContent' = [seenContent EXCEPT ![s] =
              IF ok /\ lesson.exists
              THEN [page |-> "Learn", content |-> lesson.content]
              ELSE IF ok THEN NoSeen ELSE @]
    /\ loc' = [loc EXCEPT ![s] = [NoLoc EXCEPT !.page = "loadCourseDetails"]]
    /\ Goto(s, "idle")
    /\ UNCHANGED <<lesson, genCalls>>
    /\ LessonFrame

\* setCourse / setLessons(syntheticLessons): the page lists the lessons of
\* the reply.
ShowGenerated(s, text) ==
    seenContent' = [seenContent EXCEPT ![s] =
                       [page |-> "CourseDetail", content |-> text]]

\* CourseDetail.loadCourse: without the courses row, or without a lesson of
\* the course, the page invokes generate-course; else it takes the stored
\* rows and requests content for every lesson whose content is empty.
LoadCourse(s) ==
    /\ Begin(s)
    /\ \E ok \in BOOLEAN :
        /\ Fault(ok)
        /\ IF ~ok
           THEN UNCHANGED seenContent /\ Goto(s, "idle")
           ELSE IF ~course.exists
                   \/ (~lesson.exists /\ course.generated = NoGenerated)
           THEN UNCHANGED seenContent /\ Goto(s, "gc_fetch")
           ELSE IF ~lesson.exists
           THEN ShowGenerated(s, course.content) /\ Goto(s, "idle")
           ELSE /\ seenContent' = [seenContent EXCEPT ![s] =
                      [page |-> "CourseDetail", content |-> lesson.content]]
                /\ IF IsEmpty(lesson.content)
                   THEN Goto(s, "gl_fetch") ELSE Goto(s, "idle")
    /\ loc' = [loc EXCEPT ![s] =
                  [NoLoc EXCEPT !.page = "loadCourse",
                                !.found = lesson.exists
                                            /\ ~IsEmpty(lesson.content)]]
    /\ UNCHANGED <<lesson, genCalls>>
    /\ LessonFrame

\* LessonDetail.loadLesson: the page reads the row and requests content only
\* if the row it read has none; a failed read leaves the page.
LoadLesson(s) ==
    /\ Begin(s)
    /\ \E ok \in BOOLEAN :
        /\ Fault(ok)
        /\ seenContent' = [seenContent EXCEPT ![s] =
              IF ok /\ lesson.exists
              THEN [page |-> "LessonDetail", content |-> lesson.content]
              ELSE NoSeen]
        /\ IF ok /\ lesson.exists /\ IsEmpty(lesson.content)
           THEN Goto(s, "gl_fetch") ELSE Goto(s, "idle")
    /\ loc' = [loc EXCEPT ![s] =
                  [NoLoc EXCEPT !.page = "loadLesson",
                                !.found = lesson.exists
                                            /\ ~IsEmpty(lesson.content)]]
    /\ UNCHANGED <<lesson, genCalls>>
    /\ LessonFrame

\* ensureLessonContent of the Learn and CourseDetail pages: return at once
\* when the page's copy of the lesson has content, else invoke
\* generate-lesson.
EnsureLessonContent(s) ==
    /\ Begin(s)
    /\ seenContent[s].page \in LessonPages
    /\ IF IsEmpty(seenContent[s].content)
       THEN Goto(s, "gl_fetch") ELSE Goto(s, "idle")
    /\ loc' = [loc EXCEPT ![s] =
                  [NoLoc EXCEPT !.page = "ensureLessonContent",
                                !.found = lesson.exists
                                            /\ ~IsEmpty(lesson.content)]]
    /\ UNCHANGED <<lesson, seenContent, genCalls, faulted>>
    /\ LessonFrame

\* The reply of generate-lesson reaches the page, which shows its content.
Respond(s, content) ==
    seenContent' = [seenContent EXCEPT ![s].content = content]

\* Mutant: a rejected provider call is made a second time.
ProviderCalls_retry(calls, outcome) ==
    IF outcome = "nokey" THEN calls
    ELSE IF outcome = "http" THEN calls + 2
    ELSE calls + 1

\* The key is tested before the fetch, and there is one fetch in a request.
ProviderCalls(calls, outcome) ==
    IF outcome = "nokey" THEN calls ELSE calls + 1

\* generate-lesson, up to the provider's reply: without a key no call is
\* made; a non-2xx status, an empty body and an unparsable body end the
\* request with an error; a reply without text yields the warning text.
GenerateFetch(s) ==
    /\ pc[s] = "gl_fetch"
    /\ \E outcome \in FetchOutcomes :
        /\ Fault(outcome \in {"text", "notext"})
        /\ genCalls' = ProviderCalls(genCalls, outcome)
        /\ IF outcome \in {"text", "notext"}
           THEN /\ loc' = [loc EXCEPT ![s].text =
                              IF outcome = "text"
                              THEN <<"gen", genCalls + 1>> ELSE WarnText,
                                      ![s].outcome = outcome]
                /\ Goto(s, "gl_select")
           ELSE /\ loc' = [loc EXCEPT ![s].outcome = outcome,
                                      ![s].reply = "error"]
                /\ Goto(s, "idle")
    /\ UNCHANGED <<started, lesson, seenContent>>
    /\ LessonFrame

\* const hasExisting = !!(existingRow?.content && trim() !== "")
HasExisting(row) == ~IsEmpty(row.content)

\* select("content").single(): with content in the row the request replies
\* without writing; a failed select (no such row, or an error) leads to the
\* insert.
GenerateSelect(s) ==
    /\ pc[s] = "gl_select"
    /\ \E ok \in BOOLEAN :
        /\ Fault(ok)
        /\ IF ok /\ lesson.exists
           THEN /\ loc' = [loc EXCEPT ![s].empty = ~HasExisting(lesson),
                                      ![s].reply = IF HasExisting(lesson)
                                                   THEN "ok" ELSE @]
                /\ IF HasExisting(lesson)
                   THEN Respond(s, loc[s].text) /\ Goto(s, "idle")
                   ELSE UNCHANGED seenContent /\ Goto(s, "gl_update")
           ELSE /\ UNCHANGED <<loc, seenContent>>
                /\ Goto(s, "gl_insert")
    /\ UNCHANGED <<started, lesson, genCalls>>
    /\ LessonFrame

\* update({ content: lessonText }).eq("id", lessonId): no condition on the
\* content the row holds by now.
GenerateUpdate(s) ==
    /\ pc[s] = "gl_update"
    /\ \E ok \in BOOLEAN :
        /\ Fault(ok)
        /\ lesson' = IF ok /\ lesson.exists
                     THEN [lesson EXCEPT !.content = loc[s].text]
                     ELSE lesson
        /\ loc' = [loc EXCEPT ![s].ok = ok /\ lesson.exists,
                               ![s].reply = "ok"]
    /\ Respond(s, loc[s].text)
    /\ Goto(s, "idle")
    /\ UNCHANGED <<started, genCalls>>
    /\ LessonFrame

\* insert({ id: lessonId, course_id: courseId, ..., content: lessonText }):
\* refused by the primary key when the row exists and by the foreign key
\* without the courses row.
GenerateInsert(s) ==
    /\ pc[s] = "gl_insert"
    /\ \E ok \in BOOLEAN :
        /\ Fault(ok /\ ~lesson.exists /\ course.exists)
        /\ lesson' = IF ok /\ ~lesson.exists /\ course.exists
                     THEN [exists |-> TRUE, content |-> loc[s].text]
                     ELSE lesson
        /\ loc' = [loc EXCEPT ![s].ok = ok /\ ~lesson.exists
                                            /\ course.exists,
                               ![s].reply = "ok"]
    /\ Respond(s, loc[s].text)
    /\ Goto(s, "idle")
    /\ UNCHANGED <<started, genCalls>>
    /\ LessonFrame

\* -------------------------------------------------------- generate-course
\* The repository holds two generate-course functions: one that persists
\* the course and replies with it, one that only replies.
CourseFunctions == {"persisting", "replyOnly"}

\* What the provider call of generate-course can come back with: no key,
\* a non-2xx status, a course as JSON, text that is not JSON, the JSON null,
\* and a JSON object that has no lessons.
CourseOutcomes == {"nokey", "http", "course", "prose", "null", "nolessons"}

\* The number of lessons in a course the provider writes.
ReplyLessons == {1, 2}

\* The content of the first lesson of the reply: written by the provider,
\* raw.slice(0, 2000), or the "Introduction" of the default lesson.
CourseText == <<"course", 0>>
RawText == <<"raw", 0>>
IntroText == <<"intro", 0>>

\* What the function makes of the provider's reply. The persisting function
\* falls back to one lesson of raw text when JSON.parse throws, and to a
\* default lesson when the parsed value has no lessons; parsed.course of
\* null throws, which its outer catch turns into an error. The other
\* function answers 'Malformed AI JSON', and parsed.lessons.slice throws
\* without lessons.
GenerateCourseResult(impl, outcome, n) ==
    IF outcome \in {"nokey", "http"}
    THEN [reply |-> "error", n |-> 0, text |-> NullContent]
    ELSE IF outcome = "course"
    THEN [reply |-> "ok", n |-> n, text |-> CourseText]
    ELSE IF impl = "replyOnly" \/ outcome = "null"
    THEN [reply |-> "error", n |-> 0, text |-> NullContent]
    ELSE IF outcome = "prose"
    THEN [reply |-> "ok", n |-> 1, text |-> RawText]
    ELSE [reply |-> "ok", n |-> 1, text |-> IntroText]

\* The other statements that leave the course state alone.
CourseFrame == UNCHANGED <<profile, clockVars, uiVars, toasts, learnVars,
                           expenseVars, goalVars, budgetVars>>

\* generate-course, up to the parsed reply. An error reply makes loadCourse
\* throw; the function that does not persist replies here.
GenerateCourseFetch(s) ==
    /\ pc[s] = "gc_fetch"
    /\ \E impl \in CourseFunctions, outcome \in CourseOutcomes,
          n \in ReplyLessons :
        LET r == GenerateCourseResult(impl, outcome, n)
            replies == r.reply = "error" \/ impl = "replyOnly"
        IN /\ Fault(outcome = "course")
           /\ genCalls' = ProviderCalls(genCalls, outcome)
           /\ loc' = [loc EXCEPT ![s] =
                 [@ EXCEPT !.impl = impl, !.outcome = outcome,
                           !.n = r.n, !.text = r.text,
                           !.reply = IF replies THEN r.reply ELSE "none"]]
           /\ IF r.reply = "ok" /\ replies
              THEN ShowGenerated(s, r.text) ELSE UNCHANGED seenContent
           /\ IF replies THEN Goto(s, "idle") ELSE Goto(s, "gc_upsert")
    /\ UNCHANGED <<started, lesson, course>>
    /\ CourseFrame

\* courses.upsert({ id: finalCourseId, ... }): the id is the conflict
\* target; the result is not looked at.
GenerateCourseUpsert(s) ==
    /\ pc[s] = "gc_upsert"
    /\ \E ok \in BOOLEAN :
        /\ Fault(ok)
        /\ course' = IF ok
                     THEN [course EXCEPT !.exists = TRUE,
                                         !.lessons_count = loc[s].n]
                     ELSE course
    /\ Goto(s, "gc_delete")
    /\ UNCHANGED <<started, loc, lesson, seenContent, genCalls>>
    /\ CourseFrame

\* lessons.delete().eq("course_id", finalCourseId): every lesson of the
\* course goes, the seeded ones included.
GenerateCourseDelete(s) ==
    /\ pc[s] = "gc_delete"
    /\ \E ok \in BOOLEAN :
        /\ Fault(ok)
        /\ lesson' = IF ok THEN NoLesson ELSE lesson
        /\ course' = IF ok
                     THEN [course EXCEPT !.generated = NoGenerated,
                                         !.content = NullContent]
                     ELSE course
    /\ Goto(s, "gc_insert")
    /\ UNCHANGED <<started, loc, seenContent, genCalls>>
    /\ CourseFrame

\* rows = lessonsOut.map((l, idx) => ({ ..., order_index: idx + 1 })):
\* one more row for each order_index 1..n, whatever rows are there.
InsertRows(generated, n) ==
    [i \in OrderIndexes |-> generated[i] + (IF i <= n THEN 1 ELSE 0)]

\* lessons.insert(rows) under fresh ids, refused without the courses row;
\* then the reply, which the page shows.
GenerateCourseInsert(s) ==
    /\ pc[s] = "gc_insert"
    /\ \E ok \in BOOLEAN :
        /\ Fault(ok /\ course.exists)
        /\ course' = IF ok /\ course.exists
                     THEN [course EXCEPT !.generated =
                                             InsertRows(@, loc[s].n),
                                         !.content = loc[s].text]
                     ELSE course
    /\ loc' = [loc EXCEPT ![s].reply = "ok"]
    /\ ShowGenerated(s, loc[s].text)
    /\ Goto(s, "idle")
    /\ UNCHANGED <<started, lesson, genCalls>>
    /\ CourseFrame

\* ----------------------------------------------------------------- budgets
\* spendingMap[e.category] = (spendingMap[e.category] || 0) + Number(e.amount)
RECURSIVE SpendingOf(_, _)
SpendingOf(rows, c) ==
    IF rows = <<>> THEN 0
    ELSE (IF Head(rows).category = c THEN Head(rows).amount ELSE 0)
            + SpendingOf(Tail(rows), c)

\* The other statements that leave the budget page's state alone.
BudgetFrame == UNCHANGED <<profile, clockVars, uiVars, toasts, learnVars,
                           expenseVars, lessonVars, goalVars, expenseRows,
                           stats>>

\* Budget useEffect: the page opens and loadData reads monthly_budget.
OpenBudget(s) ==
    /\ Begin(s)
    /\ loc' = [loc EXCEPT ![s] = [NoLoc EXCEPT !.page = "loadData"]]
    /\ Goto(s, "bd_budgets")
    /\ UNCHANGED <<budgets, seenBudget, faulted>>
    /\ BudgetFrame

\* loadData after a save: the read of monthly_budget.
LoadDataProfile(s) ==
    /\ pc[s] = "bd_profile"
    /\ Goto(s, "bd_budgets")
    /\ UNCHANGED <<loc, started, budgets, seenBudget, faulted>>
    /\ BudgetFrame

\* loadData: if (budgetData) setBudgets(budgetMap); a category with no row
\* has no entry, which the page reads as 0.
LoadDataBudgets(s) ==
    /\ pc[s] = "bd_budgets"
    /\ \E ok \in BOOLEAN :
        /\ Fault(ok)
        /\ seenBudget' = [seenBudget EXCEPT ![s].budgets =
              IF ok THEN [c \in Categories |-> budgets[c].allocated] ELSE @]
    /\ Goto(s, "bd_expenses")
    /\ UNCHANGED <<loc, started, budgets>>
    /\ BudgetFrame

\* loadData: if (expenses) setSpending(spendingMap).
LoadDataExpenses(s) ==
    /\ pc[s] = "bd_expenses"
    /\ \E ok \in BOOLEAN :
        /\ Fault(ok)
        /\ seenBudget' = [seenBudget EXCEPT ![s].spending =
              IF ok THEN [c \in Categories |-> SpendingOf(expenseRows, c)]
              ELSE @]
    /\ loc' = [loc EXCEPT ![s] = NoLoc]
    /\ Goto(s, "idle")
    /\ UNCHANGED <<started, budgets>>
    /\ BudgetFrame

\* Mutant: the ratio is taken for every allocation but 0.
Percentage_nonZero(allocated, spent) ==
    IF allocated # 0
    THEN (IF allocated > 0 THEN [num |-> spent * 100, den |-> allocated]
          ELSE [num |-> -(spent * 100), den |-> -allocated])
    ELSE [num |-> 0, den |-> 1]

\* const percentage = allocated > 0 ? (spent / allocated) * 100 : 0, kept as
\* a fraction num / den with den > 0.
Percentage(allocated, spent) ==
    IF allocated > 0
    THEN [num |-> spent * 100, den |-> allocated]
    ELSE [num |-> 0, den |-> 1]

\* const isOverBudget = percentage > 100
IsOverBudget(percentage) == percentage.num > 100 * percentage.den

\* upsert({ user_id, category, allocated_amount, period: 'monthly' }) with
\* no onConflict: the conflict target is the primary key id, which the
\* payload leaves to its default, so the statement is an insert and
\* UNIQUE(user_id, category, period) refuses it when the category has a row.
UpsertBudget(rows, c, amount) ==
    IF rows[c].exists
    THEN [ok |-> FALSE, rows |-> rows]
    ELSE [ok |-> TRUE,
          rows |-> [rows EXCEPT ![c] =
                       [exists |-> TRUE, allocated |-> amount]]]

\* saveBudget: one upsert; on success the page reloads, on an error it
\* shows the message.
SaveBudget(s) ==
    /\ Begin(s)
    /\ \E c \in Categories, amount \in BudgetAmounts, ok \in BOOLEAN :
        LET res == UpsertBudget(budgets, c, amount)
        IN /\ Fault(ok)
           /\ budgets' = IF ok THEN res.rows ELSE budgets
           /\ loc' = [loc EXCEPT ![s] =
                  [NoLoc EXCEPT !.page = "saveBudget", !.cat = c,
                                !.n = amount, !.ok = ok /\ res.ok]]
           /\ IF ok /\ res.ok
              THEN Goto(s, "bd_profile") ELSE Goto(s, "idle")
    /\ UNCHANGED seenBudget
    /\ BudgetFrame

\* --------------------------------------------------------------- analytics
\* .slice(0, 6): the chart keeps six months.
ChartMonths == 6

\* monthlyMap.set(month, (monthlyMap.get(month) || 0) + Number(exp.amount)):
\* a Map keeps its keys in the order they were first set.
MapAdd(entries, row) ==
    IF \E i \in 1..Len(entries) : entries[i].month = row.month
    THEN [i \in 1..Len(entries) |->
            IF entries[i].month = row.month
            THEN [entries[i] EXCEPT !.amount = @ + row.amount]
            ELSE entries[i]]
    ELSE Append(entries, [month |-> row.month, amount |-> row.amount])

RECURSIVE MonthlyMap(_, _)
MonthlyMap(entries, rows) ==
    IF rows = <<>> THEN entries
    ELSE MonthlyMap(MapAdd(entries, Head(rows)), Tail(rows))

Reverse(seq) == [i \in 1..Len(seq) |-> seq[Len(seq) + 1 - i]]

\* Array.from(monthlyMap.entries()).map(...).slice(0, 6).reverse()
MonthlyChartData(rows) ==
    LET entries == MonthlyMap(<<>>, rows)
    IN Reverse(SubSeq(entries, 1,
                      IF Len(entries) < ChartMonths THEN Len(entries)
                      ELSE ChartMonths))

\* n / d on JavaScript numbers: a fraction num / den with den > 0, or, for
\* d = 0, NaN when n = 0 and an infinity of the sign of n otherwise.
JsDivide(n, d) ==
    IF d = 0
    THEN [kind |-> IF n = 0 THEN "NaN"
                   ELSE IF n > 0 THEN "Infinity" ELSE "-Infinity",
          num |-> 0, den |-> 1]
    ELSE IF d > 0 THEN [kind |-> "num", num |-> n, den |-> d]
    ELSE [kind |-> "num", num |-> -n, den |-> -d]

\* x * 100 leaves NaN and the infinities as they are.
Times100(x) == [x EXCEPT !.num = @ * 100]

\* const trend = monthlyChartData.length >= 2
\*   ? ((last.amount - prev.amount) / prev.amount) * 100 : 0
Trend(data) ==
    IF Len(data) >= 2
    THEN Times100(JsDivide(data[Len(data)].amount - data[Len(data) - 1].amount,
                           data[Len(data) - 1].amount))
    ELSE [kind |-> "num", num |-> 0, den |-> 1]

\* loadAnalytics: one read of the user's expenses, newest first; with no
\* expenses, or with a failed read, the page keeps its initial figures.
LoadAnalytics(s) ==
    /\ Begin(s)
    /\ \E ok \in BOOLEAN :
        /\ Fault(ok)
        /\ stats' = [stats EXCEPT ![s] =
              IF ok /\ expenseRows # <<>>
              THEN [loaded |-> TRUE,
                    trend |-> Trend(MonthlyChartData(expenseRows))]
              ELSE @]
    /\ loc' = [loc EXCEPT ![s] = [NoLoc EXCEPT !.page = "loadAnalytics"]]
    /\ Goto(s, "idle")
    /\ UNCHANGED <<profile, clockVars, uiVars, toasts, learnVars, expenseVars,
                   lessonVars, goalVars, budgets, seenBudget, expenseRows>>

\* ------------------------------------------------------ achievements page
\* mockAchievements: the entries whose unlocked flag is true for the rows
\* loadData read; a failed read leaves profileData or quizData null.
\* 'Budget Pro' and 'Savings Hero' are never unlocked.
Unlocked(found, level, streak, quizzes) ==
    {"First Login"}
        \cup (IF quizzes >= 5 THEN {"Quiz Master"} ELSE {})
        \cup (IF found /\ level >= 5 THEN {"Level 5"} ELSE {})
        \cup (IF found /\ streak >= 7 THEN {"Streak Keeper"} ELSE {})

\* Achievements.loadData, run when the page opens: the first round trip
\* reads the profile.
LoadAchievementsProfile(s) ==
    /\ pc[s] = "idle"
    /\ shown.page[s] # Unlocked(profile.exists, profile.level,
                                profile.streak_days, quizAttempts.n)
    /\ \E ok \in BOOLEAN :
        /\ Fault(ok)
        /\ loc' = [loc EXCEPT ![s] =
               [NoLoc EXCEPT !.page = "Achievements",
                             !.found = ok /\ profile.exists,
                             !.n = IF ok THEN profile.level ELSE 0,
                             !.streak = IF ok THEN profile.streak_days
                                        ELSE 0]]
    /\ Goto(s, "ach_quiz")
    /\ UNCHANGED <<profile, clockVars, uiVars, started, toasts, learnVars,
                   expenseVars, lessonVars, budgetVars, goalVars>>

\* The second round trip reads the quiz attempts; setAchievements.
LoadAchievementsQuiz(s) ==
    /\ pc[s] = "ach_quiz"
    /\ \E ok \in BOOLEAN :
        /\ Fault(ok)
        /\ LET list == Unlocked(loc[s].found, loc[s].n, loc[s].streak,
                                IF ok THEN quizAttempts.n ELSE 0)
           IN shown' = [page |-> [shown.page EXCEPT ![s] = list],
                        ever |-> shown.ever \cup list]
    /\ loc' = [loc EXCEPT ![s] = NoLoc]
    /\ Goto(s, "idle")
    /\ UNCHANGED <<profile, clockVars, quizPage, started, toasts, learnVars,
                   expenseVars, lessonVars, budgetVars, goalVars>>

\* The calendar date of t in the browser's zone.
LocalDate(t) == (t + tz) \div QuartersPerDay

\* Time passes; a day begins when the date changes, in UTC or in the
\* browser's zone.
Tick ==
    /\ now < MaxNow
    /\ now' = now + 1
    /\ dayStreak' = IF TodayStr(now') # TodayStr(now)
                        \/ LocalDate(now') # LocalDate(now)
                     THEN profile.streak_days ELSE dayStreak
    /\ UNCHANGED <<profile, tz, sessionVars, learnVars, expenseVars,
                   lessonVars, budgetVars, goalVars, uiVars, faulted>>

\* --------------------------------------------------------- specifications
NoToasts == [streak |-> 0, unlock |-> 0]


\* No achievements page has loaded.
NoShown == [page |-> [s \in Sessions |-> {}], ever |-> {}]

\* The sessions are idle and hold nothing.
SessionsIdle ==
    /\ pc = [s \in Sessions |-> "idle"]
    /\ loc = [s \in Sessions |-> NoLoc]
    /\ started = [n |-> 0, overlap |-> FALSE, by |-> "none"]
    /\ toasts = NoToasts
    /\ shown = NoShown
    /\ quizPage = NoQuiz
    /\ faulted = FALSE

\* The parts of the store a specification leaves alone.
LearnUnused ==
    /\ progress = {}
    /\ seenProgress = [s \in Sessions |-> {}]
    /\ quizAttempts = [n |-> 0, perfect |-> FALSE]

ExpenseUnused ==
    /\ expenses = 0
    /\ expenseInserts = 0
    /\ achievements = 0
    /\ userAchievements = NoUserAchievements

LessonUnused ==
    /\ lesson = NoLesson
    /\ seenContent = [s \in Sessions |-> NoSeen]
    /\ genCalls = 0
    /\ course = NoCourse

BudgetUnused ==
    /\ budgets = [c \in Categories |-> NoBudget]
    /\ seenBudget = [s \in Sessions |-> NoSeenBudget]
    /\ expenseRows = <<>>
    /\ stats = [s \in Sessions |-> NoStats]

GoalUnused ==
    /\ goal = NoGoal
    /\ seenGoal = [s \in Sessions |-> NoGoal]

ClockUnused == now = 8 /\ tz = 0 /\ dayStreak = 0

InitLogin ==
    /\ \E x \in InitialXp, st \in {0, 5, 6}, last \in {NoDate, 0, 1, 2},
          ex \in BOOLEAN :
        profile = IF ex
                  THEN [exists |-> TRUE, xp |-> x, level |-> x \div 1000 + 1,
                        coins |-> 0,
                        streak_days |-> IF last = NoDate THEN 0 ELSE st,
                        last_login_date |-> last]
                  ELSE [DefaultProfile EXCEPT !.exists = FALSE]
    /\ now \in 8..11
    /\ tz \in TzOffsets
    /\ dayStreak = profile.streak_days
    /\ SessionsIdle
    /\ LearnUnused /\ ExpenseUnused /\ LessonUnused /\ GoalUnused
    /\ BudgetUnused

NextLogin ==
    \/ \E s \in Sessions : LoginRead(s)
    \/ \E s \in Sessions : LoginWrite(s)
    \/ Tick

SpecLogin == InitLogin /\ [][NextLogin]_vars

\* The achievements page next to the daily logins of a user whose streak
\* stands at 6 or 7, the last login a day or two back.
InitAchievements ==
    /\ \E st \in {6, 7}, last \in {0, 1} :
        profile = [DefaultProfile EXCEPT !.streak_days = st,
                                         !.last_login_date = last]
    /\ now = 8
    /\ tz = 0
    /\ dayStreak = profile.streak_days
    /\ SessionsIdle
    /\ LearnUnused /\ ExpenseUnused /\ LessonUnused /\ GoalUnused
    /\ BudgetUnused

NextAchievements ==
    \/ \E s \in Sessions : LoginRead(s)
    \/ \E s \in Sessions : LoginWrite(s)
    \/ \E s \in Sessions : LoadAchievementsProfile(s)
    \/ \E s \in Sessions : LoadAchievementsQuiz(s)
    \/ Tick

SpecAchievements == InitAchievements /\ [][NextAchievements]_vars

\* The Quiz page of a new user, in either tab.
InitQuiz ==
    /\ profile = DefaultProfile
    /\ ClockUnused
    /\ SessionsIdle
    /\ LearnUnused /\ ExpenseUnused /\ LessonUnused /\ GoalUnused
    /\ BudgetUnused

NextQuiz ==
    \/ \E s \in Sessions : LoadQuestions(s)
    \/ \E s \in Sessions : HandleAnswer(s)
    \/ \E s \in Sessions : HandleNext(s)
    \/ \E s \in Sessions : SaveQuizRead(s)
    \/ \E s \in Sessions : SaveQuizWrite(s)
    \/ \E s \in Sessions : TakeAnotherQuiz(s)

SpecQuiz == InitQuiz /\ [][NextQuiz]_vars

\* The lesson and quiz awards of the Learn, CourseDetail and Quiz pages.
Init ==
    /\ \E x \in {0, 980} :
        profile = [DefaultProfile EXCEPT !.xp = x, !.level = x \div 1000 + 1]
    /\ ClockUnused
    /\ SessionsIdle
    /\ LearnUnused /\ ExpenseUnused /\ LessonUnused /\ GoalUnused
    /\ BudgetUnused

Next ==
    \/ \E s \in Sessions : LoadProgress(s)
    \/ \E s \in Sessions : CompleteLessonUpsert(s)
    \/ \E s \in Sessions : CompleteLessonRead(s)
    \/ \E s \in Sessions : CompleteLessonWrite(s)
    \/ \E s \in Sessions : SaveQuizInsert(s)
    \/ \E s \in Sessions : SaveQuizRead(s)
    \/ \E s \in Sessions : SaveQuizWrite(s)

Spec == Init /\ [][Next]_vars

\* The expenses page next to the triggers of the store.  The migration seeds
\* no catalog row named 'First Expense'; one can only come from whoever
\* administers the store with the service role.
InitExpense ==
    /\ \E x \in {0, 990} :
        profile = [DefaultProfile EXCEPT !.xp = x, !.level = x \div 1000 + 1]
    /\ ClockUnused
    /\ SessionsIdle
    /\ progress = {}
    /\ seenProgress = [s \in Sessions |-> {}]
    /\ quizAttempts \in {[n |-> 0, perfect |-> FALSE],
                         [n |-> 1, perfect |-> TRUE]}
    /\ expenses = 0
    /\ expenseInserts = 0
    /\ achievements \in {0, 1}
    /\ userAchievements = NoUserAchievements
    /\ LessonUnused /\ GoalUnused /\ BudgetUnused

NextExpense ==
    \/ \E s \in Sessions : SubmitInsert(s)
    \/ \E s \in Sessions : SubmitRead(s)
    \/ \E s \in Sessions : SubmitWrite(s)
    \/ \E s \in Sessions : SubmitHead(s)
    \/ \E s \in Sessions : SubmitCount(s)
    \/ \E s \in Sessions : EnsureSelect(s)
    \/ \E s \in Sessions : EnsureInsert(s)
    \/ \E s \in Sessions : UnlockLookup(s)
    \/ \E s \in Sessions : UnlockCheck(s)
    \/ \E s \in Sessions : UnlockInsert(s)
    \/ \E s \in Sessions : ExpenseDelete(s)

SpecExpense == InitExpense /\ [][NextExpense]_vars

\* The savings goals page.
InitGoal ==
    /\ \E x \in {0, 990} :
        profile = [DefaultProfile EXCEPT !.xp = x, !.level = x \div 1000 + 1]
    /\ ClockUnused
    /\ SessionsIdle
    /\ LearnUnused /\ ExpenseUnused /\ LessonUnused /\ BudgetUnused
    /\ goal = NoGoal
    /\ seenGoal = [s \in Sessions |-> NoGoal]

NextGoal ==
    \/ \E s \in Sessions : LoadGoals(s)
    \/ \E s \in Sessions : CreateGoalInsert(s)
    \/ \E s \in Sessions : GoalAwardRead(s)
    \/ \E s \in Sessions : GoalAwardWrite(s)
    \/ \E s \in Sessions : AddToGoal(s)
    \/ \E s \in Sessions : DeleteGoal(s)

SpecGoal == InitGoal /\ [][NextGoal]_vars

\* The lesson pages and the generate-lesson requests they make.  The lesson
\* row starts with seeded, blank or no content; or the row is gone (the
\* course's lessons were replaced by generate-course) while a CourseDetail
\* page still lists it with no content.
InitLesson ==
    /\ \E c \in {NullContent, <<"blank", 0>>, <<"seed", 0>>},
          ex \in BOOLEAN :
        /\ lesson = IF ex THEN [exists |-> TRUE, content |-> c] ELSE NoLesson
        /\ seenContent = [s \in Sessions |->
              IF ~ex /\ s = "tabA"
              THEN [page |-> "CourseDetail", content |-> <<"blank", 0>>]
              ELSE NoSeen]
        /\ ex \/ c = NullContent
        /\ \E known \in BOOLEAN :
            /\ ex => known
            /\ course = IF known
                        THEN [NoCourse EXCEPT !.exists = TRUE,
                                              !.lessons_count =
                                                  IF ex THEN 1 ELSE 0]
                        ELSE NoCourse
    /\ genCalls = 0
    /\ profile = DefaultProfile
    /\ SessionsIdle /\ ClockUnused
    /\ LearnUnused /\ ExpenseUnused /\ GoalUnused /\ BudgetUnused

NextLesson ==
    \E s \in Sessions :
        \/ LoadCourseDetails(s)
        \/ LoadCourse(s)
        \/ LoadLesson(s)
        \/ EnsureLessonContent(s)
        \/ GenerateFetch(s)
        \/ GenerateSelect(s)
        \/ GenerateUpdate(s)
        \/ GenerateInsert(s)
        \/ GenerateCourseFetch(s)
        \/ GenerateCourseUpsert(s)
        \/ GenerateCourseDelete(s)
        \/ GenerateCourseInsert(s)

SpecLesson == InitLesson /\ [][NextLesson]_vars

\* The expenses a user can have: at most MaxRows rows, newest month first.
RowInputs ==
    [month : Months, category : Categories, amount : ExpenseAmounts]
LedgerInputs ==
    {rows \in UNION {[1..n -> RowInputs] : n \in 0..MaxRows} :
        \A i \in 1..(Len(rows) - 1) : rows[i].month >= rows[i + 1].month}

\* The budget page of a user with at most one expense.
InitBudget ==
    /\ profile = DefaultProfile
    /\ ClockUnused
    /\ SessionsIdle
    /\ LearnUnused /\ ExpenseUnused /\ LessonUnused /\ GoalUnused
    /\ budgets = [c \in Categories |-> NoBudget]
    /\ seenBudget = [s \in Sessions |-> NoSeenBudget]
    /\ expenseRows \in {rows \in LedgerInputs :
                            Len(rows) <= 1 /\ \A i \in 1..Len(rows) :
                                                rows[i].month = 1}
    /\ stats = [s \in Sessions |-> NoStats]

NextBudget ==
    \E s \in Sessions :
        \/ OpenBudget(s)
        \/ LoadDataProfile(s)
        \/ LoadDataBudgets(s)
        \/ LoadDataExpenses(s)
        \/ SaveBudget(s)

SpecBudget == InitBudget /\ [][NextBudget]_vars

\* The analytics page over the expenses a user can have.
InitAnalytics ==
    /\ profile = DefaultProfile
    /\ ClockUnused
    /\ SessionsIdle
    /\ LearnUnused /\ ExpenseUnused /\ LessonUnused /\ GoalUnused
    /\ budgets = [c \in Categories |-> NoBudget]
    /\ seenBudget = [s \in Sessions |-> NoSeenBudget]
    /\ expenseRows \in LedgerInputs
    /\ stats = [s \in Sessions |-> NoStats]

NextAnalytics == \E s \in Sessions : LoadAnalytics(s)

SpecAnalytics == InitAnalytics /\ [][NextAnalytics]_vars

\* ------------------------------------------------------------ properties
\* Session s leaves the handler position `from' in this step.
StepOf(s, from) == pc[s] = from /\ pc'[s] # from

\* C7: a daily-login write that succeeds stores the streak the rule gives
\* for the handler's diffDays: 1 with no previous login, streak + 1 for
\* diffDays = 1, 1 for diffDays > 1; and a login recorded two days before
\* today's date resets the streak to 1 whatever the browser's time zone.
C7_StreakRule ==
    [][\A s \in Sessions :
        (StepOf(s, "login_write") /\ loc'[s].ok) =>
            /\ loc[s].last = NoDate => profile'.streak_days = 1
            /\ (loc[s].last # NoDate /\ DiffDays(now, loc[s].last) = 1)
                    => profile'.streak_days = loc[s].streak + 1
            /\ (loc[s].last # NoDate /\ DiffDays(now, loc[s].last) > 1)
                    => profile'.streak_days = 1
            /\ (loc[s].last # NoDate /\ loc[s].last = TodayStr(now) - 2)
                    => profile'.streak_days = 1]_vars

\* A streak of 5 with the last login two days back has just been reset to 1.
C7_Witness ==
    \E s \in Sessions :
        /\ pc[s] = "idle" /\ loc[s].ok
        /\ loc[s].streak = 5 /\ loc[s].last = TodayStr(now) - 2
        /\ profile.streak_days = 1
        /\ profile.last_login_date = TodayStr(now)

C2_AwardWritesXpAndLevel ==
    [][\A s \in Sessions :
        /\ (StepOf(s, "lesson_read") \/ StepOf(s, "quiz_read"))
              /\ loc'[s].found
            => loc'[s].xp = profile.xp
        /\ (StepOf(s, "lesson_write") /\ loc'[s].ok)
            => loc[s].amt = XpReward[loc[s].lessonId]
        /\ (StepOf(s, "quiz_write") /\ loc'[s].ok)
            => loc[s].amt = loc[s].score * 100
        /\ ((StepOf(s, "lesson_write") \/ StepOf(s, "quiz_write"))
              /\ loc'[s].ok)
            => /\ profile'.xp = loc[s].xp + loc[s].amt
               /\ profile'.level = ((loc[s].xp + loc[s].amt) \div 1000) + 1
               /\ (loc[s].xp = 980 /\ loc[s].amt = 30)
                    => (profile'.xp = 1010 /\ profile'.level = 2)
               /\ (loc[s].xp = 980 /\ loc[s].amt = 0)
                    => (profile'.xp = 980 /\ profile'.level = 1)]_vars

\* A lesson worth 30 xp was completed on a profile read at xp 980, and the
\* profile now stands at xp 1010, level 2.
C2_Witness ==
    \E s \in Sessions :
        /\ pc[s] = "load_progress" /\ loc[s].ok
        /\ loc[s].lessonId # "none" /\ loc[s].xp = 980 /\ loc[s].amt = 30
        /\ profile.xp = 1010 /\ profile.level = 2

\* C1: every step that changes the profile's xp leaves the stored level at
\* floor(xp / 1000) + 1.
C1_LevelFollowsXp ==
    [][profile'.xp # profile.xp
        => profile'.level = (profile'.xp \div 1000) + 1]_vars

AllIdle == \A s \in Sessions : pc[s] = "idle"

\* C5: once the expense submissions have run to their end, with no call
\* failed and no expense deleted, a user with at least one expense holds
\* exactly one 'First Expense' unlock.
C5_FirstExpenseUnlockedOnce ==
    (AllIdle /\ ~faulted /\ expenseInserts >= 1 /\ expenses = expenseInserts)
        => userAchievements["FirstExpense"] = 1

\* C6: there is never more than one user_achievements row for the user and
\* an achievement, and no step removes a row.
C6_OneRowPerAchievement ==
    /\ [](\A a \in AchievementIds : userAchievements[a] <= 1)
    /\ [][\A a \in AchievementIds :
            userAchievements'[a] >= userAchievements[a]]_vars

\* Two unlock attempts both reached their insert and one row stands.
C6_Witness ==
    /\ toasts.unlock = 2
    /\ userAchievements["FirstExpense"] = 1

\* C9: an expense submission whose profile read or profile write failed
\* leaves the stored xp as it was.
C9_FailedAwardKeepsXp ==
    [][\A s \in Sessions :
        (StepOf(s, "submit_write") /\ (~loc[s].found \/ ~loc'[s].ok))
            => profile'.xp = profile.xp]_vars

\* Session s runs addToGoal in this step.
AddStep(s) ==
    /\ pc[s] = "idle" /\ started'.n = started.n + 1
    /\ loc'[s].page = "addToGoal"

\* C10: an add of a > 0 that succeeds stores current_amount = c + a and
\* completed = (c + a >= t) for the stored amount c and target t; no step
\* lowers the amount of a completed goal or clears its flag; an add of
\* a <= 0 leaves the goal as it is.
C10_AddToGoal ==
    [][/\ \A s \in Sessions :
            /\ (AddStep(s) /\ loc'[s].n > 0 /\ loc'[s].ok) =>
                    /\ goal'.current = goal.current + loc'[s].n
                    /\ goal'.completed
                         = (goal.current + loc'[s].n >= goal.target)
            /\ (AddStep(s) /\ loc'[s].n <= 0) => goal' = goal
       /\ (goal.exists /\ goal.completed /\ goal'.exists
             /\ goal'.id = goal.id) =>
                (goal'.completed /\ goal'.current >= goal.current)]_vars

\* A session takes the step: it runs a handler or starts one.
Acts(s) ==
    \/ pc[s] # "idle"
    \/ started'.n = started.n + 1 /\ started'.by = s

\* C3: with no two handlers overlapping, an ensure (ensureLessonContent of
\* the Learn and CourseDetail pages, loadLesson of LessonDetail) invoked on
\* a lesson whose stored content is non-empty makes no generation call and
\* leaves the stored content as it is, on the first and on the second
\* invocation.
C3_EnsureTwiceNoCall ==
    [][\A s \in Sessions :
         (/\ Acts(s)
          /\ ~started'.overlap
          /\ loc'[s].page \in {"ensureLessonContent", "loadLesson"}
          /\ loc'[s].found)
            => (genCalls' = genCalls /\ lesson' = lesson)]_vars

\* C4: once the stored content of the lesson is non-empty, no step of a
\* generate-lesson request changes it, however the requests interleave.
C4_FilledContentKept ==
    [][(/\ lesson.exists /\ ~IsEmpty(lesson.content)
        /\ \E s \in Sessions :
              \/ StepOf(s, "gl_fetch") \/ StepOf(s, "gl_select")
              \/ StepOf(s, "gl_update") \/ StepOf(s, "gl_insert"))
          => lesson' = lesson]_vars

\* C11: whatever the sessions do and however their steps interleave, the
\* stored xp is never negative and no step lowers it.
C11_XpNeverDecreases ==
    [][profile'.xp >= 0 /\ profile'.xp >= profile.xp]_vars

\* Session s makes its profile write in this step and the write succeeds.
AwardWrite(s) ==
    /\ StepOf(s, "lesson_write") \/ StepOf(s, "quiz_write")
    /\ loc'[s].ok

\* Session t has written its award: the row stands at the xp t read plus
\* t's award.
Awarded(t) ==
    /\ pc[t] \in {"idle", "load_progress"}
    /\ loc[t].found /\ loc[t].ok /\ loc[t].amt > 0
    /\ profile.xp = loc[t].xp + loc[t].amt

\* C12: when session s writes its award after another session t, which read
\* the same xp, has written its own, the write of s goes through and the
\* row is left with the xp they both read plus the award of s alone: the
\* award of t is gone.
C12_LastWriteWins ==
    [][\A s \in Sessions : \A t \in Sessions \ {s} :
         (AwardWrite(s) /\ Awarded(t) /\ loc[t].xp = loc[s].xp)
            => /\ profile'.xp = profile.xp - loc[t].amt + loc[s].amt
               /\ profile'.xp < loc[s].xp + loc[s].amt + loc[t].amt]_vars

\* Two sessions read the same xp and both wrote an award; the row holds
\* the award of one of them only.
C12_Witness ==
    \E s \in Sessions : \E t \in Sessions \ {s} :
        /\ loc[s].found /\ loc[s].ok /\ loc[s].amt > 0
        /\ loc[t].found /\ loc[t].ok /\ loc[t].amt > 0
        /\ loc[s].xp = loc[t].xp
        /\ ~faulted
        /\ profile.xp = loc[s].xp + loc[s].amt
        /\ profile.xp < loc[s].xp + loc[s].amt + loc[t].amt

\* C13: a saveBudget for a category that has a budgets row, made with no
\* failed call, succeeds and leaves that row holding the amount saved.
C13_SaveBudgetReplaces ==
    [][\A s \in Sessions :
         (/\ pc[s] = "idle" /\ started'.n = started.n + 1
          /\ started'.by = s
          /\ loc'[s].page = "saveBudget"
          /\ budgets[loc'[s].cat].exists
          /\ faulted' = faulted)
            => /\ loc'[s].ok
               /\ budgets'[loc'[s].cat] =
                     [exists |-> TRUE, allocated |-> loc'[s].n]]_vars

\* C14: a lesson completion made with no failed call, for a lesson the
\* user has a progress row for, goes on to its award: the row that exists
\* does not make it fail, and the row stays.
C14_CompleteAgainSucceeds ==
    [][\A s \in Sessions :
         (/\ pc[s] = "idle" /\ started'.n = started.n + 1
          /\ started'.by = s
          /\ loc'[s].lessonId \in progress
          /\ faulted' = faulted)
            => (pc'[s] = "lesson_read" /\ progress' = progress)]_vars

\* The allocation and the spending page s shows for category c.
Allocated(s, c) == seenBudget[s].budgets[c]
Spent(s, c) == seenBudget[s].spending[c]

MonthsPresent == {expenseRows[i].month : i \in 1..Len(expenseRows)}

RECURSIVE TotalOf(_, _)
TotalOf(rows, m) ==
    IF rows = <<>> THEN 0
    ELSE (IF Head(rows).month = m THEN Head(rows).amount ELSE 0)
            + TotalOf(Tail(rows), m)

\* C16: the trend a loaded analytics page shows is (latest - previous) /
\* previous * 100 over the totals of the two latest months with expenses,
\* and it is 0 when there are fewer than two such months or the previous
\* total is 0.
C16_Trend ==
    \A s \in Sessions :
        stats[s].loaded =>
            LET t == stats[s].trend
            IN IF Cardinality(MonthsPresent) < 2
               THEN t.kind = "num" /\ t.num = 0
               ELSE LET latest == CHOOSE m \in MonthsPresent :
                                     \A k \in MonthsPresent : k <= m
                        previous == CHOOSE m \in MonthsPresent \ {latest} :
                                     \A k \in MonthsPresent \ {latest} :
                                         k <= m
                        a == TotalOf(expenseRows, latest)
                        b == TotalOf(expenseRows, previous)
                    IN /\ t.kind = "num"
                       /\ IF b = 0 THEN t.num = 0
                          ELSE t.num * b = (a - b) * 100 * t.den

\* C17: when the provider's reply to a generate-course request is not JSON,
\* the caller never receives an error, and the reply it receives is a course
\* of exactly one lesson whose content is the raw text.
C17_ParseFailureFallsBack ==
    \A s \in Sessions :
        loc[s].outcome = "prose" =>
            /\ loc[s].reply # "error"
            /\ loc[s].reply = "ok" => (loc[s].n = 1 /\ loc[s].text = RawText)

\* C18: a generate-lesson or generate-course request that finds no key, or
\* gets a non-2xx status from the provider, ends in that step with an error
\* reply, has made at most one provider call (none without a key), and has
\* written nothing to the lessons and courses tables.
C18_ErrorNoRetryNoWrite ==
    [][\A s \in Sessions :
         (/\ StepOf(s, "gl_fetch") \/ StepOf(s, "gc_fetch")
          /\ loc'[s].outcome \in {"nokey", "http"})
            => /\ loc'[s].reply = "error"
               /\ pc'[s] = "idle"
               /\ genCalls' = IF loc'[s].outcome = "nokey"
                               THEN genCalls ELSE genCalls + 1
               /\ lesson' = lesson
               /\ course' = course]_vars

\* One session's generate-lesson request found no key and the other's
\* generate-course request got a non-2xx status: both were told of an error
\* and one provider call was made.
C18_Witness ==
    \E s \in Sessions : \E t \in Sessions \ {s} :
        /\ loc[s].impl = "none" /\ loc[s].outcome = "nokey"
        /\ loc[s].reply = "error"
        /\ loc[t].impl # "none" /\ loc[t].outcome = "http"
        /\ loc[t].reply = "error"
        /\ genCalls = 1
        /\ AllIdle

\* C19: every unlock attempt that passed the not-exists check shows the
\* notification, whether or not its insert adds a row: the attempt that
\* finds the row already there leaves the table as it is, with one row for
\* the achievement, and notifies all the same.
C19_NotifiedWithoutRow ==
    [][\A s \in Sessions :
         StepOf(s, "unlock_insert")
            => /\ toasts'.unlock = toasts.unlock + 1
               /\ userAchievements'[loc[s].ach] <= 1
               /\ userAchievements[loc[s].ach] = 1
                     => userAchievements' = userAchievements]_vars

\* With no call failed, two attempts passed the check before either
\* inserted: two notifications were shown and one row stands.
C19_Witness ==
    /\ AllIdle /\ ~faulted
    /\ toasts.unlock = 2
    /\ userAchievements["FirstExpense"] = 1

\* C20: when an add to a savings goal that succeeded without completing
\* the goal has run to its end, with no other handler running meanwhile,
\* the stored xp is 10 above what it was when the add began.
C20_GoalProgressAwardsXp ==
    [][\A s \in Sessions :
         (/\ StepOf(s, "load_goals")
          /\ loc[s].page = "addToGoal" /\ loc[s].ok
          /\ ~goal.completed
          /\ ~started.overlap)
            => profile'.xp = loc[s].before + 10]_vars

\* Session s starts a lesson completion in this step.
CompleteStep(s) ==
    /\ pc[s] = "idle" /\ started'.n = started.n + 1 /\ started'.by = s
    /\ loc'[s].page \in LessonPages

C22_StreakOncePerDay == profile.streak_days <= dayStreak + 1

\* C23: when an expense submission whose calls all succeed, and which no
\* other handler overlaps, has made its profile write, the stored xp is
\* exactly 10 above what it was before the expense was inserted.
C23_ExpenseAddsTen ==
    [][\A s \in Sessions :
         (/\ StepOf(s, "submit_write")
          /\ loc[s].found /\ loc'[s].ok
          /\ ~started.overlap)
            => profile'.xp = loc[s].before + 10]_vars

GenerateLessonStep(s) ==
    \/ StepOf(s, "gl_fetch") \/ StepOf(s, "gl_select")
    \/ StepOf(s, "gl_update") \/ StepOf(s, "gl_insert")

\* C25: a step of a generate-lesson request that changes the lesson row
\* stores text the provider produced, and a request whose reply from the
\* provider carried no lesson text leaves the row as it is.
C25_OnlyProviderText ==
    [][\A s \in Sessions :
         GenerateLessonStep(s)
            => /\ lesson' # lesson => lesson'.content[1] = "gen"
               /\ loc[s].outcome = "notext" => lesson' = lesson]_vars

\* C26: once the generate-course requests have run to their end with no
\* call failed, the lessons they stored for the course are those of one
\* response: one row for each order_index 1..n, none beyond, and
\* lessons_count = n on the courses row.
C26_LessonsOfOneResponse ==
    (AllIdle /\ ~faulted /\ ~lesson.exists
       /\ course.generated # NoGenerated)
        => \E n \in OrderIndexes :
              /\ \A i \in OrderIndexes :
                    course.generated[i] = IF i <= n THEN 1 ELSE 0
              /\ course.exists /\ course.lessons_count = n

\* C27: when a session adds b to a goal and the add succeeds, while the
\* other session's successful add of a to the same goal, made on a stored
\* amount of c, is the last write the goal has had, the stored amount
\* becomes c + a + b.
C27_BothAddsCount ==
    [][\A s \in Sessions : \A t \in Sessions \ {s} :
         (/\ loc[s].page = "addToGoal" /\ loc[s].ok /\ loc[s].n > 0
          /\ goal.exists /\ goal.current = loc[s].start + loc[s].n
          /\ AddStep(t) /\ started'.by = t
          /\ loc'[t].ok /\ loc'[t].n > 0)
            => goal'.current = loc[s].start + loc[s].n + loc'[t].n]_vars

C29_NeverRevoked ==
    [][\A s \in Sessions :
         (/\ StepOf(s, "ach_quiz") /\ ~faulted'
          /\ loc[s].found /\ loc[s].n = profile.level
          /\ loc[s].streak = profile.streak_days)
            => shown.ever \subseteq shown'.page[s]]_vars

\* C30: during a quiz no question is answered twice, the score and the
\* lives lost add up to the number of answers taken, the score is at most
\* the number of questions, and the lives stay within 0..3.
C30_QuizCounters ==
    /\ quizPage.times <= 1
    /\ quizPage.score + (3 - quizPage.lives) = quizPage.answered
    /\ quizPage.score <= quizPage.questions
    /\ quizPage.lives \in 0..3
====
